---- MODULE Spec2Model ----
(***************************************************************************)
(* Hybrid retriever of Article-Finder-offline: app/retrieval.py            *)
(* (class Retriever, the live definition at lines 336-482), with           *)
(* app/normalize.py; the build steps scripts/01_chunk_pdfs.py,             *)
(* scripts/02_build_bm25.py and scripts/03_build_faiss.py with the files   *)
(* they persist; and the streaming endpoint of app/enhanced_chat.py.       *)
(*                                                                         *)
(* Text is a sequence of characters; a character is a one-character        *)
(* string, except the characters TLA+ strings cannot hold, which are named *)
(* (LDQUO, RDQUO, LSQUO, RSQUO for U+201C, U+201D, U+2018, U+2019, CROSS   *)
(* for U+274C).                                                            *)
(*                                                                         *)
(* Scores are fixed-point numbers.  A normalised score is an integer in    *)
(* 0..NormOne (NormOne is 1.0), a fused score an integer in units of       *)
(* 1/FusedOne, a reported score an integer number of thousandths.          *)
(***************************************************************************)
EXTENDS Integers, Sequences, FiniteSets, TLC

VARIABLES
    alpha,        \* Retriever.alpha, in hundredths
    meta_json,    \* Retriever.meta_json: the loaded chunk records, in corpus order
    query,        \* argument of the last search
    roles,        \* argument of the last search
    topk,         \* argument of the last search
    bm25_scores,  \* what self.bm25.get_scores(tokens) returned in the last search
    I,            \* what self.index.search returned in the last search: positions
    D,            \* ... and similarities
    results,      \* "results" of the value the last search returned
    answer,       \* "answer" of the value the last search returned
    pass,         \* which loop filled results: "none" before the first search
    twin,         \* a second retriever and its search, for two-run comparisons
    data,         \* the files under data/: processed/chunks.jsonl, idx/bm25.pkl,
                  \* idx/faiss.index, idx/meta.json
    outcome,      \* how the last run of a build step ended
    retriever,    \* the module-level retriever of app/enhanced_chat.py
    response,     \* what the last request to /chat/stream was answered
    call,         \* the last application of a function on its own
    threads       \* the calls of search that are running concurrently

\* the variables of the retriever and its last search
search_vars == <<alpha, meta_json, query, roles, topk, bm25_scores, I, D,
                 results, answer, pass, twin>>

\* the variables of everything else
build_vars == <<data, outcome>>
chat_vars == <<retriever, response>>
call_vars == <<call>>
thread_vars == <<threads>>

vars == <<alpha, meta_json, query, roles, topk, bm25_scores, I, D,
          results, answer, pass, twin,
          data, outcome, retriever, response, call, threads>>

-----------------------------------------------------------------------------
(* Bounds of the model *)

\* largest corpus (number of chunks) Init loads
MaxChunks == 2

\* largest topk a search is called with
MaxTopk == 2

\* pool size of the nearest-neighbour search.  Retriever.__init__ sets
\* self.faiss_topk = 50; the model scales it down with the corpus bound, so
\* that corpora smaller than the pool (padded answers) and corpora that fill
\* it both occur
faiss_topk == 2

\* raw scores (BM25, cosine similarity) are drawn from these levels
RawLevels == 0..1

-----------------------------------------------------------------------------
(* Characters and str methods *)

LDQUO == "LDQUO"
RDQUO == "RDQUO"
LSQUO == "LSQUO"
RSQUO == "RSQUO"
CROSS == "CROSS"

\* the lower-case letter of each upper-case letter
LowerOf ==
    [A |-> "a", B |-> "b", C |-> "c", D |-> "d", E |-> "e", F |-> "f",
     G |-> "g", H |-> "h", I |-> "i", J |-> "j", K |-> "k", L |-> "l",
     M |-> "m", N |-> "n", O |-> "o", P |-> "p", Q |-> "q", R |-> "r",
     S |-> "s", T |-> "t", U |-> "u", V |-> "v", W |-> "w", X |-> "x",
     Y |-> "y", Z |-> "z"]

\* one character of str.lower()
LowerChar(c) == IF c \in DOMAIN LowerOf THEN LowerOf[c] ELSE c

\* str.lower()
lower(s) == [i \in 1..Len(s) |-> LowerChar(s[i])]

\* what \s of re and str.strip()/str.split() take for whitespace
IsSpace(c) == c \in {" ", "\t", "\n", "\r"}

\* str.lstrip()
RECURSIVE lstrip(_)
lstrip(s) ==
    IF s # <<>> /\ IsSpace(Head(s)) THEN lstrip(Tail(s)) ELSE s

\* str.rstrip()
RECURSIVE rstrip(_)
rstrip(s) ==
    IF s # <<>> /\ IsSpace(s[Len(s)]) THEN rstrip(SubSeq(s, 1, Len(s) - 1)) ELSE s

\* str.strip()
strip(s) == rstrip(lstrip(s))

\* the leading characters of s that are not whitespace
RECURSIVE FirstWord(_)
FirstWord(s) ==
    IF s = <<>> \/ IsSpace(Head(s)) THEN <<>>
    ELSE <<Head(s)>> \o FirstWord(Tail(s))

\* str.split(): the maximal runs of non-whitespace, in order
RECURSIVE split(_)
split(s) ==
    LET t == lstrip(s)
        w == FirstWord(t)
    IN  IF t = <<>> THEN <<>>
        ELSE <<w>> \o split(SubSeq(t, Len(w) + 1, Len(t)))

\* needle in hay (Python's substring test)
Contains(hay, needle) ==
    \E i \in 0..(Len(hay) - Len(needle)) :
        SubSeq(hay, i + 1, i + Len(needle)) = needle

-----------------------------------------------------------------------------
(* app/normalize.py *)

\* the replace calls chained so that one feeds the next
ReplaceQuoteChained(c) ==
    IF c = LDQUO THEN RDQUO
    ELSE IF c = RDQUO THEN "\""
    ELSE IF c = RSQUO THEN "'"
    ELSE c

\* the three .replace calls of normalize_text, on one character
ReplaceQuote(c) ==
    IF c = LDQUO THEN "\""
    ELSE IF c = RDQUO THEN "\""
    ELSE IF c = RSQUO THEN "'"
    ELSE c

\* re.sub(r'\s+', ' ', text)
RECURSIVE CollapseSpace(_)
CollapseSpace(s) ==
    IF s = <<>> THEN <<>>
    ELSE IF IsSpace(Head(s)) THEN <<" ">> \o CollapseSpace(lstrip(s))
    ELSE <<Head(s)>> \o CollapseSpace(Tail(s))

normalize_text(text) ==
    LET lowered  == lower(text)
        replaced == [i \in 1..Len(lowered) |-> ReplaceQuote(lowered[i])]
    IN  strip(CollapseSpace(replaced))

-----------------------------------------------------------------------------
(* Fixed-point scale *)

\* 1.0 as a normalised score; every difference of two raw levels divides it
NormOne == 2 * 2 * 3 * 5

\* alpha is kept in hundredths
AlphaDen == 10 * 10

\* 1.0 as a fused score
FusedOne == NormOne * AlphaDen

\* round(x, 3) of the number num/den, in thousandths (Python rounds a half to
\* the even neighbour)
round3(num, den) ==
    LET n == num * 1000
        q == n \div den
        r == n % den
    IN  IF 2 * r < den THEN q
        ELSE IF 2 * r > den THEN q + 1
        ELSE IF q % 2 = 0 THEN q ELSE q + 1

-----------------------------------------------------------------------------
(* scripts/01_chunk_pdfs.py: the chunk records the retriever loads *)

Restricted == <<"r", "e", "s", "t", "r", "i", "c", "t", "e", "d">>

\* the marker looked for in the name as it is spelled
assign_roles_as_spelled(filename) ==
    IF Contains(filename, Restricted)
    THEN {"legal", "admin"}
    ELSE {"staff", "legal", "admin"}

assign_roles_from_filename(filename) ==
    IF Contains(lower(filename), Restricted)
    THEN {"legal", "admin"}
    ELSE {"staff", "legal", "admin"}

\* the record process_pdfs writes for one chunk (page and line ranges are
\* those of a one-line chunk)
ChunkRecord(pdf_name, article_no, text) ==
    [doc_id     |-> pdf_name,
     article_no |-> article_no,
     page_start |-> 1,
     page_end   |-> 1,
     line_start |-> 1,
     line_end   |-> 1,
     text       |-> text,
     norm_text  |-> normalize_text(text),
     roles      |-> assign_roles_from_filename(pdf_name)]

-----------------------------------------------------------------------------
(* scripts/02_build_bm25.py and rank_bm25: lexical scores *)

\* the tokens build_bm25 indexes for a chunk
Bm25Tokens(chunk) ==
    LET toks == split(normalize_text(chunk.text))
    IN  {toks[i] : i \in {j \in 1..Len(toks) : Len(toks[j]) > 2}}

\* BM25Okapi.get_scores sums, over the query tokens, a term that is zero when
\* the token is not among the chunk's indexed tokens: any vector of raw
\* levels that is zero on the chunks sharing no indexed token with the query
Bm25Answers(meta, tokens) ==
    {s \in [1..Len(meta) -> RawLevels] :
        \A i \in 1..Len(meta) :
            (\A t \in 1..Len(tokens) : tokens[t] \notin Bm25Tokens(meta[i]))
                => s[i] = 0}

-----------------------------------------------------------------------------
(* scripts/03_build_faiss.py and faiss.IndexFlatIP: semantic scores *)

\* the score faiss reports for a slot it could not fill (-3.4028235e38)
FltLowest == 0 - (10 ^ 6)

\* S in descending order of sims, equal similarities by position
RECURSIVE ByDescendingSim(_, _)
ByDescendingSim(S, sims) ==
    IF S = {} THEN <<>>
    ELSE LET b == CHOOSE i \in S :
                    \A j \in S : sims[j] < sims[i] \/ (sims[j] = sims[i] /\ i <= j)
         IN  <<b>> \o ByDescendingSim(S \ {b}, sims)

\* index.search(q_emb, k) over the vectors whose inner products with q_emb
\* are sims: the k nearest, best first, as 0-based labels with their
\* similarities (which of several equally near vectors makes the cut is the
\* library's choice); when there are fewer than k vectors the answer is
\* padded with label -1 and the lowest float
FaissAnswers(sims, k) ==
    LET n == Len(sims)
        m == IF n < k THEN n ELSE k
    IN  { [labels |-> [p \in 1..k |->
                         IF p <= m THEN ByDescendingSim(C, sims)[p] - 1 ELSE -1],
           dists  |-> [p \in 1..k |->
                         IF p <= m THEN sims[ByDescendingSim(C, sims)[p]]
                         ELSE FltLowest]] :
            C \in { c \in SUBSET (1..n) :
                      /\ Cardinality(c) = m
                      /\ \A i \in c : \A j \in (1..n) \ c : sims[j] <= sims[i] } }

\* a[idx] of a Python sequence of length n, as a position in 1..n
PyIndex(idx, n) == IF idx < 0 THEN n + idx + 1 ELSE idx + 1

\* vec_scores = np.zeros(n); for idx, score in zip(I[0], D[0]): vec_scores[idx] = score
RECURSIVE AssignScores(_, _, _, _)
AssignScores(vec, labels, dists, p) ==
    IF p > Len(labels) THEN vec
    ELSE AssignScores([vec EXCEPT ![PyIndex(labels[p], Len(vec))] = dists[p]],
                      labels, dists, p + 1)

VecScores(n, labels, dists) ==
    AssignScores([i \in 1..n |-> 0], labels, dists, 1)

-----------------------------------------------------------------------------
(* Retriever._normalize_scores *)

SeqMax(s) == CHOOSE x \in {s[i] : i \in 1..Len(s)} : \A j \in 1..Len(s) : s[j] <= x
SeqMin(s) == CHOOSE x \in {s[i] : i \in 1..Len(s)} : \A j \in 1..Len(s) : x <= s[j]

\* a - b in float64: a raw score (of magnitude at most a few units) is lost
\* when it is added to the magnitude of the lowest float
FloatSub(a, b) ==
    IF b = FltLowest /\ a # FltLowest THEN 0 - FltLowest ELSE a - b

\* (scores - min) / (max - min + 1e-8), zeros when max = min; the 1e-8 is
\* below the resolution of NormOne
normalize_scores(scores) ==
    IF Len(scores) = 0 \/ SeqMax(scores) = SeqMin(scores)
    THEN [i \in 1..Len(scores) |-> 0]
    ELSE [i \in 1..Len(scores) |->
            (FloatSub(scores[i], SeqMin(scores)) * NormOne)
                \div FloatSub(SeqMax(scores), SeqMin(scores))]

-----------------------------------------------------------------------------
(* Retriever.search: fusion *)

important_keywords ==
    { <<"c", "r", "i", "m", "i", "n", "a", "l">>,
      <<"p", "e", "n", "a", "l", "t", "y">>,
      <<"i", "n", "s", "p", "e", "c", "t", "i", "o", "n">>,
      <<"v", "i", "o", "l", "a", "t", "i", "o", "n">>,
      <<"f", "i", "n", "e">>,
      <<"o", "f", "f", "e", "n", "c", "e">>,
      <<"l", "a", "w">>,
      <<"l", "i", "c", "e", "n", "s", "e">> }

\* fused[i] += 0.15, in hundredths
KeywordBoost == 15

\* fused[i] += 0.25, in hundredths
LiteralBoost == 25

\* if fused[i] < 0.05, in hundredths
RelevanceFloor == 5

\* chunk["text"][:700]
ExcerptLen == 700

\* a number of hundredths as a fused score
Hundredths(h) == (h * FusedOne) \div 100

\* query_lower = query.lower().strip()
QueryLower(q) == strip(lower(q))

\* the literal-match test of the boost loop
LiteralMatch(q, chunk) == Contains(chunk.norm_text, QueryLower(q))

\* the number of important keywords the chunk's norm_text contains
KeywordHits(chunk) ==
    Cardinality({w \in important_keywords : Contains(chunk.norm_text, w)})

\* Blend with the two weights exchanged
BlendExchanged(a, bm25, vec) ==
    LET bm25_norm == normalize_scores(bm25)
        vec_norm  == normalize_scores(vec)
    IN  [i \in 1..Len(bm25) |-> (AlphaDen - a) * vec_norm[i] + a * bm25_norm[i]]

\* fused = alpha * vec_norm + (1 - alpha) * bm25_norm
Blend(a, bm25, vec) ==
    LET bm25_norm == normalize_scores(bm25)
        vec_norm  == normalize_scores(vec)
    IN  [i \in 1..Len(bm25) |-> a * vec_norm[i] + (AlphaDen - a) * bm25_norm[i]]

\* what the boost loop adds to fused[i] for the important keywords
KeywordBonus(chunk) == KeywordHits(chunk) * Hundredths(KeywordBoost)

\* what the boost loop adds to fused[i] for a literal match
LiteralBonus(q, chunk) ==
    IF LiteralMatch(q, chunk) THEN Hundredths(LiteralBoost) ELSE 0

\* fused after the boost loop
Fused(a, meta, q, bm25, vec) ==
    LET blend == Blend(a, bm25, vec)
    IN  [i \in 1..Len(meta) |->
            blend[i] + KeywordBonus(meta[i]) + LiteralBonus(q, meta[i])]

\* np.argsort(-scores): the orders of the positions 1..n in which the scores
\* do not increase.  argsort's default kind is not a stable sort, so
\* positions of equal score come in any order
ArgsortDescending(scores) ==
    LET n == Len(scores)
    IN  {p \in [1..n -> 1..n] :
            /\ \A i, j \in 1..n : i # j => p[i] # p[j]
            /\ \A i \in 1..(n - 1) : scores[p[i]] >= scores[p[i + 1]]}

-----------------------------------------------------------------------------
(* Retriever._highlight_keywords *)

MarkOpen ==
    <<"<", "m", "a", "r", "k", " ", "s", "t", "y", "l", "e", "=", "'", "b",
      "a", "c", "k", "g", "r", "o", "u", "n", "d", ":", "y", "e", "l", "l",
      "o", "w", ";", "f", "o", "n", "t", "-", "w", "e", "i", "g", "h", "t",
      ":", "b", "o", "l", "d", ";", "'", ">">>

MarkClose == <<"<", "/", "m", "a", "r", "k", ">">>

\* re.compile(re.escape(tok), re.IGNORECASE) matches text at position pos
MatchAt(text, pos, tok) ==
    /\ pos + Len(tok) - 1 <= Len(text)
    /\ \A j \in 1..Len(tok) : LowerChar(text[pos + j - 1]) = LowerChar(tok[j])

\* the positions at which tok matches
Matches(text, tok) ==
    {m \in 1..(Len(text) - Len(tok) + 1) : MatchAt(text, m, tok)}

\* pattern.sub(wrap, text) from position pos on, ms being the positions at
\* which the pattern matches: the matches from left to right, none
\* overlapping another, each wrapped in the mark element
RECURSIVE SubMark(_, _, _, _)
SubMark(text, pos, n, ms) ==
    LET later == {m \in ms : m >= pos}
        m     == CHOOSE x \in later : \A y \in later : x <= y
    IN  IF later = {} THEN SubSeq(text, pos, Len(text))
        ELSE SubSeq(text, pos, m - 1)
                 \o MarkOpen \o SubSeq(text, m, m + n - 1) \o MarkClose
                 \o SubMark(text, m + n, n, ms)

RECURSIVE highlight_keywords(_, _)
highlight_keywords(text, tokens) ==
    IF tokens = <<>> THEN text
    ELSE highlight_keywords(
             IF strip(Head(tokens)) = <<>> THEN text
             ELSE SubMark(text, 1, Len(Head(tokens)),
                          Matches(text, Head(tokens))),
             Tail(tokens))

\* s[:k] of a Python sequence
PySliceTo(s, k) ==
    IF k >= 0 THEN SubSeq(s, 1, IF k < Len(s) THEN k ELSE Len(s))
    ELSE SubSeq(s, 1, Len(s) + k)

-----------------------------------------------------------------------------
(* Retriever.search: the two result loops and the return value *)

\* chunk.get("roles", self._assign_roles_from_filename(chunk.get("doc_id", "")))
ChunkRoles(chunk) ==
    IF "roles" \in DOMAIN chunk THEN chunk.roles
    ELSE assign_roles_from_filename(chunk.doc_id)

\* chunk.get("roles", [])
FallbackRoles(chunk) ==
    IF "roles" \in DOMAIN chunk THEN chunk.roles ELSE {}

\* RolesIntersect with the filter dropped
RolesIntersectDropped(r, chunk_roles) == TRUE

\* RolesIntersect with an empty role list taken for "no restriction"
RolesIntersectOrNone(r, chunk_roles) == r = {} \/ r \cap chunk_roles # {}

\* set(roles).intersection(set(chunk_roles)) is not empty
RolesIntersect(r, chunk_roles) == r \cap chunk_roles # {}

\* WeakMatch with the floor left out
WeakMatchNever(f) == FALSE

\* fused[i] < 0.05
WeakMatch(f) == f < Hundredths(RelevanceFloor)

\* the dict both loops append; score is in thousandths
ResultItem(chunk, chunk_roles, score, tokens) ==
    [doc_id     |-> chunk.doc_id,
     article_no |-> chunk.article_no,
     page_start |-> chunk.page_start,
     page_end   |-> chunk.page_end,
     score      |-> score,
     roles      |-> chunk_roles,
     excerpt    |-> highlight_keywords(
                        SubSeq(chunk.text, 1,
                               IF Len(chunk.text) < ExcerptLen
                               THEN Len(chunk.text) ELSE ExcerptLen),
                        tokens)]

\* len(results) >= topk, the test that ends the first loop
EnoughResults(res, k) == Len(res) >= k

\* for i in ranked_idx: ... (the first loop), from position p of ranked_idx on
\* with acc the results so far; c holds the locals of search
RECURSIVE PrimaryLoop(_, _, _, _)
PrimaryLoop(c, ranked_idx, p, acc) ==
    IF p > Len(ranked_idx) THEN acc
    ELSE LET i           == ranked_idx[p]
             chunk       == c.meta[i]
             chunk_roles == ChunkRoles(chunk)
             more        == Append(acc, ResultItem(chunk, chunk_roles,
                                       round3(c.fused[i], FusedOne), c.tokens))
         IN  IF ~RolesIntersect(c.roles, chunk_roles)
             THEN PrimaryLoop(c, ranked_idx, p + 1, acc)
             ELSE IF WeakMatch(c.fused[i])
             THEN PrimaryLoop(c, ranked_idx, p + 1, acc)
             ELSE IF EnoughResults(more, c.topk) THEN more
             ELSE PrimaryLoop(c, ranked_idx, p + 1, more)

\* for i in np.argsort(-bm25_norm)[:topk]: ... (the fallback loop), over order
RECURSIVE FallbackLoop(_, _, _, _)
FallbackLoop(c, order, p, acc) ==
    IF p > Len(order) THEN acc
    ELSE LET i     == order[p]
             chunk == c.meta[i]
         IN  IF ~RolesIntersect(c.roles, FallbackRoles(chunk))
             THEN FallbackLoop(c, order, p + 1, acc)
             ELSE FallbackLoop(c, order, p + 1,
                      Append(acc, ResultItem(chunk, FallbackRoles(chunk),
                                      round3(c.bm25_norm[i], NormOne), c.tokens)))

NoAnswer ==
    <<CROSS, " ", "N", "o", " ", "r", "e", "l", "e", "v", "a", "n", "t", " ",
      "a", "r", "t", "i", "c", "l", "e", " ", "f", "o", "u", "n", "d", ".">>

\* Answer taking the excerpt of the last result
AnswerOfLast(res) == IF res # <<>> THEN res[Len(res)].excerpt ELSE NoAnswer

\* results[0]["excerpt"] if results else the sentinel
Answer(res) == IF res # <<>> THEN res[1].excerpt ELSE NoAnswer

\* the locals of search the two loops read
Locals(a, meta, q, r, k, bm25, labels, dists) ==
    [meta      |-> meta,
     roles     |-> r,
     topk      |-> k,
     tokens    |-> split(normalize_text(q)),
     fused     |-> Fused(a, meta, q, bm25, VecScores(Len(meta), labels, dists)),
     bm25_norm |-> normalize_scores(bm25)]

\* the values search can return, given what the two indices answered (bm25,
\* labels, dists), one for each order the argsort calls can produce; "pass"
\* says which loop filled the results
SearchReturns(a, meta, q, r, k, bm25, labels, dists) ==
    LET c == Locals(a, meta, q, r, k, bm25, labels, dists)
        firsts == {PrimaryLoop(c, ranked_idx, 1, <<>>) :
                       ranked_idx \in ArgsortDescending(c.fused)}
        seconds == {FallbackLoop(c, PySliceTo(ranked_bm, k), 1, <<>>) :
                       ranked_bm \in ArgsortDescending(c.bm25_norm)}
    IN  {[results |-> res, answer |-> Answer(res), pass |-> "primary"] :
             res \in firsts \ {<<>>}}
        \cup
        (IF <<>> \in firsts
         THEN {[results |-> res, answer |-> Answer(res), pass |-> "fallback"] :
                  res \in seconds}
         ELSE {})

-----------------------------------------------------------------------------
(* The inputs the model draws *)

\* alpha of a Retriever built as app/chat_api.py and app/run_api.py build it:
\* the default of Retriever.__init__, 0.5, in hundredths
DefaultAlpha == 50

\* names of the source PDFs (without the extension)
PdfNames ==
    { <<"g", "u", "i", "d", "e">>,
      <<"R", "e", "s", "t", "r", "i", "c", "t", "e", "d">> }

\* texts of chunks
ChunkTexts ==
    { <<"L", "a", "w">>,
      <<"a", " ", "w">> }

\* query strings: a corpus word, an upper-case and a double-space spelling of
\* a corpus phrase, and a string no chunk holds
Queries ==
    { <<"l", "a", "w">>,
      <<"A", " ", "w">>,
      <<"a", " ", " ", "w">>,
      <<"w", "w">> }

\* role lists of callers
CallerRoles == { {}, {"staff"}, {"legal"}, {"Staff"} }

\* the chunk lists process_pdfs can write: chunk i carries i as its article_no
Corpora ==
    UNION { { [i \in 1..n |-> ChunkRecord(c[i][1], i, c[i][2])] :
                c \in [1..n -> PdfNames \X ChunkTexts] } :
            n \in 1..MaxChunks }

-----------------------------------------------------------------------------
(* The retriever as a state machine *)

NoTwin == [on |-> FALSE]

\* Python's None
None == "None"

\* None where the other values are objects or dicts, and a file that does
\* not exist
NoneObject == [is_none |-> TRUE]

\* nothing has been built, no request answered, no function applied and no
\* thread started
BuildIdle == data = [chunks_jsonl |-> NoneObject, bm25_pkl |-> NoneObject,
                     faiss_index |-> NoneObject, meta_json |-> NoneObject]
             /\ outcome = NoneObject
ChatIdle == retriever = NoneObject /\ response = NoneObject
CallIdle == call = NoneObject
ThreadsIdle == threads = <<>>

\* Retriever.__init__: the indices are loaded, nothing has been searched
Init ==
    /\ alpha = DefaultAlpha
    /\ meta_json \in Corpora
    /\ query = <<>>
    /\ roles = {}
    /\ topk = 0
    /\ bm25_scores = <<>>
    /\ I = <<>>
    /\ D = <<>>
    /\ results = <<>>
    /\ answer = <<>>
    /\ pass = "none"
    /\ twin = NoTwin
    /\ BuildIdle /\ ChatIdle /\ CallIdle /\ ThreadsIdle

\* Retriever.search(q, r, k), called while no call is being answered
Search(q, r, k) ==
    /\ pass = "none"
    /\ \E bm25 \in Bm25Answers(meta_json, split(normalize_text(q))),
          sims \in [1..Len(meta_json) -> RawLevels] :
         \E f \in FaissAnswers(sims, faiss_topk) :
           \E out \in SearchReturns(alpha, meta_json, q, r, k, bm25,
                                    f.labels, f.dists) :
              /\ query' = q
              /\ roles' = r
              /\ topk' = k
              /\ bm25_scores' = bm25
              /\ I' = f.labels
              /\ D' = f.dists
              /\ results' = out.results
              /\ answer' = out.answer
              /\ pass' = out.pass
              /\ UNCHANGED <<alpha, meta_json>>
              /\ UNCHANGED <<build_vars, chat_vars, call_vars, thread_vars>>

\* the caller has taken the returned value; the loaded indices are as they
\* were and the next call can be made
Return ==
    /\ pass # "none"
    /\ query' = <<>>
    /\ roles' = {}
    /\ topk' = 0
    /\ bm25_scores' = <<>>
    /\ I' = <<>>
    /\ D' = <<>>
    /\ results' = <<>>
    /\ answer' = <<>>
    /\ pass' = "none"
    /\ twin' = NoTwin
    /\ UNCHANGED <<alpha, meta_json>>
    /\ UNCHANGED <<build_vars, chat_vars, call_vars, thread_vars>>

Next ==
    \/ \E q \in Queries, r \in CallerRoles, k \in 0..MaxTopk :
          Search(q, r, k) /\ UNCHANGED twin
    \/ Return

Spec == Init /\ [][Next]_vars

-----------------------------------------------------------------------------
(* What the last search computed, recovered from the state *)

\* a search has returned and its value has not been taken yet
Returned == pass # "none"

NChunks == Len(meta_json)

\* tokens of the last search
TokensNow == split(normalize_text(query))

\* vec_scores, bm25_norm and fused of the last search
VecNow == VecScores(NChunks, I, D)
Bm25NormNow == normalize_scores(bm25_scores)
FusedNow == Fused(alpha, meta_json, query, bm25_scores, VecNow)

\* fused of the last search before the literal-match bonus
BaseFusedNow ==
    LET blend == Blend(alpha, bm25_scores, VecNow)
    IN  [i \in 1..NChunks |-> blend[i] + KeywordBonus(meta_json[i])]

\* the chunks whose roles share a role with the caller's roles
PermittedNow == {i \in 1..NChunks : roles \cap meta_json[i].roles # {}}

\* the chunk (position in the corpus) a result item was made from
ChunkOf(item) == item.article_no

\* the chunks of the results, in result order
ReturnedChunks == [p \in 1..Len(results) |-> ChunkOf(results[p])]

\* 0.05 as a fused score and as a reported score (thousandths)
FloorFused == (5 * FusedOne) \div 100
FloorReported == 5 * 10

Smaller(a, b) == IF a < b THEN a ELSE b

-----------------------------------------------------------------------------
(* C1 *)

\* C1: every item search returns, from the first loop or from the fallback
\* loop, belongs to a chunk whose roles share a role with the caller's roles
\* (and carries such a role list)
C1_ResultsArePermitted ==
    Returned =>
        \A p \in 1..Len(results) :
            /\ ChunkOf(results[p]) \in PermittedNow
            /\ roles \cap results[p].roles # {}

\* a staff caller got results although a [legal, admin] chunk holds the query
\* literally and has the highest fused score of the corpus
C1_Witness ==
    /\ Returned
    /\ roles = {"staff"}
    /\ results # <<>>
    /\ \E i \in 1..NChunks :
          /\ meta_json[i].roles = {"legal", "admin"}
          /\ Contains(meta_json[i].norm_text, normalize_text(query))
          /\ \A j \in 1..NChunks : j # i => FusedNow[j] < FusedNow[i]

-----------------------------------------------------------------------------
(* C3 *)

\* the caller's roles share a role with no chunk of the corpus
NothingPermitted == PermittedNow = {}

\* C3: when the caller's roles (the empty list too) intersect the roles of no
\* chunk, search returns no results and the no-relevant-article answer
C3_RoleMismatchIsEmpty ==
    (Returned /\ NothingPermitted) => (results = <<>> /\ answer = NoAnswer)

\* a caller without any role searched a corpus in which some chunk scores
\* above the floor
C3_Witness ==
    /\ Returned
    /\ NothingPermitted
    /\ roles = {}
    /\ \E i \in 1..NChunks : FusedNow[i] >= FloorFused
    /\ results = <<>>

-----------------------------------------------------------------------------
(* C4 *)

\* C4: search returns at most topk items, for every topk >= 0
C4_AtMostTopk == Returned => Len(results) <= topk

-----------------------------------------------------------------------------
(* C5 *)

\* the keys of a result of the first loop
FusedShape ==
    {"doc_id", "article_no", "page_start", "page_end", "score", "roles", "excerpt"}

\* an item a caller can tell from a result of the first loop by its keys
Distinguishable(item) == DOMAIN item # FusedShape

\* every result of the first loop has a fused score of at least 0.05
PrimaryAboveFloor ==
    pass = "primary" =>
        \A p \in 1..Len(results) : FusedNow[ChunkOf(results[p])] >= FloorFused

\* C5 as claimed: an item reported below 0.05 comes from the fallback loop
\* and is marked or shaped differently from a fused result; first-loop
\* results have a fused score of at least 0.05
C5_SubFloorIsMarked ==
    Returned =>
        /\ \A p \in 1..Len(results) :
              results[p].score < FloorReported =>
                  (pass = "fallback" /\ Distinguishable(results[p]))
        /\ PrimaryAboveFloor

\* C5 as amended: an item reported below 0.05 comes from the fallback loop,
\* has the keys of a fused result and a score of at least 0; first-loop
\* results have a fused score of at least 0.05
C5_SubFloorIsFallback ==
    Returned =>
        /\ \A p \in 1..Len(results) :
              results[p].score < FloorReported =>
                  /\ pass = "fallback"
                  /\ results[p].score >= 0
                  /\ DOMAIN results[p] = FusedShape
        /\ PrimaryAboveFloor

\* the fallback loop returned an item whose reported score is below 0.05
C5_Witness ==
    /\ Returned
    /\ pass = "fallback"
    /\ \E p \in 1..Len(results) : results[p].score < FloorReported

-----------------------------------------------------------------------------
(* C6 *)

\* no token of the query, nor the query itself (as given or normalised),
\* occurs in the norm_text of any chunk
AbsentQuery ==
    \A i \in 1..NChunks :
        /\ \A t \in 1..Len(TokensNow) :
              ~Contains(meta_json[i].norm_text, TokensNow[t])
        /\ ~Contains(meta_json[i].norm_text, query)
        /\ ~Contains(meta_json[i].norm_text, normalize_text(query))

\* C6: a query that occurs nowhere in the corpus gets no results and the
\* no-relevant-article answer, for topk >= 1
C6_AbsentQueryIsEmpty ==
    (Returned /\ topk >= 1 /\ AbsentQuery) =>
        (results = <<>> /\ answer = NoAnswer)

-----------------------------------------------------------------------------
(* C7 *)

\* C7: when the first loop yields nothing, the fallback returns exactly the
\* min(topk, P) permitted chunks of highest normalised BM25 score, in
\* descending order of that score (P the number of permitted chunks)
C7_FallbackTopPermitted ==
    (Returned /\ pass = "fallback") =>
        /\ Len(results) = Smaller(topk, Cardinality(PermittedNow))
        /\ \A p \in 1..Len(results) : ReturnedChunks[p] \in PermittedNow
        /\ \A p, r \in 1..Len(results) :
              p < r => /\ ReturnedChunks[p] # ReturnedChunks[r]
                       /\ Bm25NormNow[ReturnedChunks[p]]
                              >= Bm25NormNow[ReturnedChunks[r]]
        /\ \A j \in PermittedNow :
              (\A p \in 1..Len(results) : ReturnedChunks[p] # j) =>
                  \A p \in 1..Len(results) :
                      Bm25NormNow[j] <= Bm25NormNow[ReturnedChunks[p]]

-----------------------------------------------------------------------------
(* C8 *)

\* C8: answer is the excerpt of the first result when there are results, and
\* is the no-relevant-article sentinel exactly when there are none
C8_AnswerIsTopExcerpt ==
    Returned =>
        /\ results # <<>> => answer = results[1].excerpt
        /\ answer = NoAnswer <=> results = <<>>

\* two results with different excerpts were returned
C8_Witness ==
    /\ Returned
    /\ Len(results) >= 2
    /\ results[1].excerpt # results[Len(results)].excerpt
    /\ answer = results[1].excerpt

-----------------------------------------------------------------------------
(* C9 *)

\* chunk a comes before chunk b in the order "fused score descending, equal
\* scores in corpus order"
Before(a, b) ==
    FusedNow[a] > FusedNow[b] \/ (FusedNow[a] = FusedNow[b] /\ a < b)

\* the chunks the first loop may return: permitted and not below the floor
EligibleNow == {i \in PermittedNow : FusedNow[i] >= FloorFused}

\* C9: the results of the first loop are in descending order of fused score,
\* chunks of equal score in corpus order, and they are the first topk
\* eligible chunks of that order (stated for topk >= 1)
C9_PrimaryOrder ==
    (Returned /\ pass = "primary" /\ topk >= 1) =>
        /\ Len(results) = Smaller(topk, Cardinality(EligibleNow))
        /\ \A p, r \in 1..Len(results) :
              p < r => Before(ReturnedChunks[p], ReturnedChunks[r])
        /\ \A j \in EligibleNow :
              (\A p \in 1..Len(results) : ReturnedChunks[p] # j) =>
                  \A p \in 1..Len(results) : Before(ReturnedChunks[p], j)

-----------------------------------------------------------------------------
(* C10 *)

\* the chunk's norm_text contains normalize_text(query)
HoldsNormalizedQuery(i) ==
    Contains(meta_json[i].norm_text, normalize_text(query))

\* C10: the literal-match bonus is added to a chunk's fused score exactly
\* when its norm_text contains the normalised query; so of two chunks with
\* equal base score the one that contains it has the higher fused score
C10_LiteralBonusIffContains ==
    Returned =>
        /\ \A i \in 1..NChunks :
              (FusedNow[i] # BaseFusedNow[i]) <=> HoldsNormalizedQuery(i)
        /\ \A i, j \in 1..NChunks :
              (/\ BaseFusedNow[i] = BaseFusedNow[j]
               /\ HoldsNormalizedQuery(i)
               /\ ~HoldsNormalizedQuery(j)) => FusedNow[i] > FusedNow[j]

-----------------------------------------------------------------------------
(* Two retrievers searched with the same arguments *)

\* the chunks of meta a caller with roles r is permitted to see
Visible(meta, r) == {i \in 1..Len(meta) : r \cap meta[i].roles # {}}

\* the corpora that differ from meta only in chunks not visible to r: as
\* many chunks, the visible ones the same, the others not visible either
TwinCorpora(meta, r) ==
    {m \in Corpora :
        /\ Len(m) = Len(meta)
        /\ Visible(m, r) = Visible(meta, r)
        /\ \A i \in Visible(meta, r) : m[i] = meta[i]}

\* search(q, r, k) on this retriever and on one loaded with a twin corpus;
\* the two indices of the twin answer for the visible chunks what they
\* answer here
SearchPair(q, r, k) ==
    /\ Search(q, r, k)
    /\ \E meta2 \in TwinCorpora(meta_json, r) :
         \E bm25_2 \in Bm25Answers(meta2, split(normalize_text(q))),
            sims2 \in [1..Len(meta2) -> RawLevels] :
           \E f2 \in FaissAnswers(sims2, faiss_topk) :
             \E out2 \in SearchReturns(alpha, meta2, q, r, k, bm25_2,
                                       f2.labels, f2.dists) :
                /\ \A i \in Visible(meta2, r) :
                      /\ bm25_2[i] = bm25_scores'[i]
                      /\ VecScores(Len(meta2), f2.labels, f2.dists)[i]
                             = VecScores(Len(meta2), I', D')[i]
                /\ twin' = [on          |-> TRUE,
                            meta_json   |-> meta2,
                            bm25_scores |-> bm25_2,
                            I           |-> f2.labels,
                            D           |-> f2.dists,
                            results     |-> out2.results,
                            answer      |-> out2.answer,
                            pass        |-> out2.pass]

NextPair ==
    \/ \E q \in Queries, r \in CallerRoles, k \in 0..MaxTopk : SearchPair(q, r, k)
    \/ Return

SpecPair == Init /\ [][NextPair]_vars

\* fused and bm25_norm of the twin's search
TwinFused ==
    Fused(alpha, twin.meta_json, query, twin.bm25_scores,
          VecScores(Len(twin.meta_json), twin.I, twin.D))
TwinBm25Norm == normalize_scores(twin.bm25_scores)

\* no two chunks have the same score in the order a loop went through, so
\* that argsort had one order to give
OrderForced(fused, bm25_norm, which) ==
    /\ \A i, j \in 1..Len(fused) : i # j => fused[i] # fused[j]
    /\ which = "fallback" =>
          \A i, j \in 1..Len(fused) : i # j => bm25_norm[i] # bm25_norm[j]

-----------------------------------------------------------------------------
(* C2 *)

\* C2: two corpora that differ only in chunks the caller is not permitted to
\* see give the caller the same results (items, order, scores) and the same
\* answer (compared for topk >= 1 and where neither search had equal scores to
\* order)
C2_FilteringIsSilent ==
    (/\ Returned
     /\ twin.on
     /\ topk >= 1
     /\ OrderForced(FusedNow, Bm25NormNow, pass)
     /\ OrderForced(TwinFused, TwinBm25Norm, twin.pass)) =>
        (twin.results = results /\ twin.answer = answer)

-----------------------------------------------------------------------------
(* normalize_text applied on its own *)

\* longest string the functions are applied to on their own
MaxLen == 3

\* characters of the strings: letters of both cases, the whitespace
\* characters, the typographic and the plain quotes
TextChars == {"A", "b", " ", "\t", "\n", LDQUO, RDQUO, LSQUO, RSQUO, "'", "\""}

Strings == UNION {[1..n -> TextChars] : n \in 0..MaxLen}

\* no retriever is loaded and nothing is searched
SearchIdle ==
    /\ alpha = DefaultAlpha
    /\ meta_json = <<>>
    /\ query = <<>>
    /\ roles = {}
    /\ topk = 0
    /\ bm25_scores = <<>>
    /\ I = <<>>
    /\ D = <<>>
    /\ results = <<>>
    /\ answer = <<>>
    /\ pass = "none"
    /\ twin = NoTwin

\* a string is about to be normalized
InitNormalize ==
    /\ SearchIdle /\ BuildIdle /\ ChatIdle /\ ThreadsIdle
    /\ \E s \in Strings :
          call = [fn |-> "normalize_text", arg |-> s, applied |-> 0,
                  ret |-> None, again |-> None]

\* ret = normalize_text(arg)
Normalize ==
    /\ call.applied = 0
    /\ call' = [call EXCEPT !.ret = normalize_text(call.arg), !.applied = 1]
    /\ UNCHANGED <<search_vars, build_vars, chat_vars, thread_vars>>

\* again = normalize_text(ret)
NormalizeAgain ==
    /\ call.applied = 1
    /\ call' = [call EXCEPT !.again = normalize_text(call.ret), !.applied = 2]
    /\ UNCHANGED <<search_vars, build_vars, chat_vars, thread_vars>>

NextNormalize == Normalize \/ NormalizeAgain

SpecNormalize == InitNormalize /\ [][NextNormalize]_vars

\* the typographic quotation marks
TypographicQuotes == {LDQUO, RDQUO, LSQUO, RSQUO}

IsUpper(c) == c \in DOMAIN LowerOf

-----------------------------------------------------------------------------
(* C16 *)

\* C16: normalize_text is idempotent: normalizing a normalized string gives
\* the same string, the empty string included
C16_NormalizeIdempotent ==
    call.applied = 2 => call.again = call.ret

\* a string with an upper-case letter, a typographic quote and whitespace to
\* collapse has been normalized twice
C16_Witness ==
    /\ call.applied = 2
    /\ \E i, j, k \in 1..Len(call.arg) :
          /\ IsUpper(call.arg[i])
          /\ call.arg[j] \in {LDQUO, RDQUO, RSQUO}
          /\ call.arg[k] \in {"\t", "\n"}
    /\ call.ret # call.arg

-----------------------------------------------------------------------------
(* C17 *)

\* C17: the output of normalize_text holds no typographic quotation mark, no
\* upper-case letter, no whitespace but single spaces between non-space
\* characters, and no leading or trailing whitespace
C17_NormalizedIsPlain ==
    call.applied >= 1 =>
        LET out == call.ret
        IN  /\ \A i \in 1..Len(out) :
                  /\ out[i] \notin TypographicQuotes
                  /\ ~IsUpper(out[i])
                  /\ IsSpace(out[i]) =>
                        /\ out[i] = " "
                        /\ 1 < i /\ i < Len(out)
                        /\ ~IsSpace(out[i - 1])
                        /\ ~IsSpace(out[i + 1])

-----------------------------------------------------------------------------
(* C20 *)

\* a role name in lower case (the role names of the model)
FoldRole(r) == IF r = "Staff" THEN "staff" ELSE r

\* the caller's roles and the chunk's roles share a role when letter case is
\* ignored
SharesRoleIgnoringCase(r, chunk_roles) ==
    \E a \in r, b \in chunk_roles : FoldRole(a) = FoldRole(b)

\* C20: role matching ignores letter case: when every chunk has a role that
\* differs from one of the caller's at most in letter case, no chunk is
\* excluded by the role filter, so a search with topk >= 1 returns a result
\* from the primary or from the fallback pass
C20_RoleMatchIgnoresCase ==
    (/\ Returned
     /\ topk >= 1
     /\ \A i \in 1..NChunks : SharesRoleIgnoringCase(roles, meta_json[i].roles))
        => results # <<>>

-----------------------------------------------------------------------------
(* scripts/01_chunk_pdfs.py: chunk_text_universal *)

\* window of _locate_line_position (its default is 250 characters) and the
\* word count that closes a chunk of the fallback pass (350 words), scaled
\* down to the lines of the model so that positions beyond the window and
\* chunks closed by the word count occur
LocateWindow == 4
ChunkWords == 2

Digits == {"0", "1", "2", "3", "4", "5", "6", "7", "8", "9"}
UpperLetters == DOMAIN LowerOf
LowerLetters == {LowerOf[c] : c \in DOMAIN LowerOf}

\* \w of re, on the characters of the model
IsWordChar(c) == c \in Digits \cup UpperLetters \cup LowerLetters \cup {"_"}

\* [0-9IVXLC] under re.IGNORECASE
IsNumeralChar(c) == c \in Digits \cup {"I", "V", "X", "L", "C", "i", "v", "x", "l", "c"}

\* (Article|Section|Chapter) under re.IGNORECASE
HeadingWords ==
    { <<"a", "r", "t", "i", "c", "l", "e">>,
      <<"s", "e", "c", "t", "i", "o", "n">>,
      <<"c", "h", "a", "p", "t", "e", "r">> }

\* "\n".join(l["text"] for l in lines)
RECURSIVE JoinLines(_)
JoinLines(lines) ==
    IF lines = <<>> THEN <<>>
    ELSE IF Len(lines) = 1 THEN lines[1].text
    ELSE lines[1].text \o <<"\n">> \o JoinLines(Tail(lines))

\* \s*: the first position from q on (counted from 1) that holds no whitespace
RECURSIVE SkipSpace(_, _)
SkipSpace(ft, q) ==
    IF q <= Len(ft) /\ IsSpace(ft[q]) THEN SkipSpace(ft, q + 1) ELSE q

\* the length of the run of [0-9IVXLC] characters at q
RECURSIVE NumeralRun(_, _)
NumeralRun(ft, q) ==
    IF q <= Len(ft) /\ IsNumeralChar(ft[q]) THEN 1 + NumeralRun(ft, q + 1) ELSE 0

\* \b after a word character: the character at q is no word character
WordEndsBefore(ft, q) == q > Len(ft) \/ ~IsWordChar(ft[q])

\* the length group 2 of article_pattern matches at q, 0 when it cannot:
\* [0-9IVXLC]+ first, then [A-Z]; \d+(\.\d+)? matches nothing the first
\* alternative does not
GroupTwo(ft, q) ==
    LET run == NumeralRun(ft, q)
    IN  IF run >= 1 /\ WordEndsBefore(ft, q + run) THEN run
        ELSE IF /\ run = 0
                /\ q <= Len(ft)
                /\ ft[q] \in UpperLetters \cup LowerLetters
                /\ WordEndsBefore(ft, q + 1) THEN 1
        ELSE 0

\* article_pattern matched at index p of full_text (counted from 0, as
\* match.start()): NoneObject, or the match with its end() and group(2)
MatchHeadingAt(ft, p) ==
    LET anchored == p = 0 \/ (p < Len(ft) /\ ft[p + 1] = "\n")
        word     == IF p = 0 THEN SkipSpace(ft, 1) ELSE SkipSpace(ft, p + 2)
        number   == SkipSpace(ft, word + 7)
        len      == GroupTwo(ft, number)
    IN  IF /\ anchored
           /\ word + 6 <= Len(ft)
           /\ lower(SubSeq(ft, word, word + 6)) \in HeadingWords
           /\ len >= 1
        THEN [start |-> p, end |-> number + len - 1,
              group2 |-> SubSeq(ft, number, number + len - 1)]
        ELSE NoneObject

\* list(article_pattern.finditer(full_text)), searched from index from
RECURSIVE FindHeadings(_, _)
FindHeadings(ft, from) ==
    LET found == {p \in from..(Len(ft) - 1) : MatchHeadingAt(ft, p) # NoneObject}
    IN  IF found = {} THEN <<>>
        ELSE LET p == CHOOSE x \in found : \A y \in found : x <= y
                 m == MatchHeadingAt(ft, p)
             IN  <<m>> \o FindHeadings(ft, m.end)

\* _locate_line_position(lines, char_index), from line j on with the
\* lengths of the lines before it summed in cumulative
RECURSIVE LocateFrom(_, _, _, _)
LocateFrom(lines, char_index, j, cumulative) ==
    IF j > Len(lines)
    THEN <<lines[Len(lines)].page_num, lines[Len(lines)].line_num>>
    ELSE LET line_len == Len(lines[j].text) + 1
         IN  IF cumulative <= char_index
                /\ char_index < cumulative + line_len + LocateWindow
             THEN <<lines[j].page_num, lines[j].line_num>>
             ELSE LocateFrom(lines, char_index, j + 1, cumulative + line_len)

\* the lines searched from the last one
LocateBackwards(lines, char_index) ==
    LET n == Len(lines)
    IN  LocateFrom([j \in 1..n |-> lines[n + 1 - j]], char_index, 1, 0)

locate_line_position(lines, char_index) == LocateFrom(lines, char_index, 1, 0)

\* full_text[start:end]
PySlice(s, start, end) == SubSeq(s, start + 1, end)

\* the chunks of the heading-based pass
HeadingChunks(lines, ft, matches) ==
    [i \in 1..Len(matches) |->
        LET start == matches[i].start
            end   == IF i + 1 <= Len(matches) THEN matches[i + 1].start ELSE Len(ft)
            from  == locate_line_position(lines, start)
            to    == locate_line_position(lines, end)
        IN  [article_no |-> matches[i].group2,
             page_start |-> from[1],
             page_end   |-> to[1],
             line_start |-> from[2],
             line_end   |-> to[2],
             text       |-> strip(PySlice(ft, start, end))]]

\* the loop of the fallback pass from line j on; st holds buffer,
\* chunk_start (as a flag), word_count, start_page, start_line and chunks
RECURSIVE FallbackFrom(_, _, _)
FallbackFrom(lines, j, st) ==
    IF j > Len(lines) THEN st
    ELSE LET line   == lines[j]
             fresh  == st.chunk_start = None
             page   == IF fresh THEN line.page_num ELSE st.start_page
             lineno == IF fresh THEN line.line_num ELSE st.start_line
             buffer == st.buffer \o <<" ">> \o line.text
             words  == st.word_count + Len(split(line.text))
         IN  IF words >= ChunkWords
             THEN FallbackFrom(lines, j + 1,
                    [buffer |-> <<>>, chunk_start |-> None, word_count |-> 0,
                     start_page |-> page, start_line |-> lineno,
                     chunks |-> Append(st.chunks,
                        [article_no |-> <<"0">>,
                         page_start |-> page,
                         page_end   |-> line.page_num,
                         line_start |-> lineno,
                         line_end   |-> line.line_num,
                         text       |-> strip(buffer)])])
             ELSE FallbackFrom(lines, j + 1,
                    [buffer |-> buffer, chunk_start |-> "line", word_count |-> words,
                     start_page |-> page, start_line |-> lineno,
                     chunks |-> st.chunks])

\* FallbackChunks without the leftover
FallbackChunksClosedOnly(lines) ==
    FallbackFrom(lines, 1,
       [buffer |-> <<>>, chunk_start |-> None, word_count |-> 0,
        start_page |-> lines[1].page_num,
        start_line |-> lines[1].line_num,
        chunks |-> <<>>]).chunks

\* the chunks of the fallback pass, the leftover included
FallbackChunks(lines) ==
    LET st == FallbackFrom(lines, 1,
                [buffer |-> <<>>, chunk_start |-> None, word_count |-> 0,
                 start_page |-> lines[1].page_num,
                 start_line |-> lines[1].line_num,
                 chunks |-> <<>>])
        last_line == lines[Len(lines)]
    IN  IF strip(st.buffer) # <<>>
        THEN Append(st.chunks,
                [article_no |-> <<"0">>,
                 page_start |-> st.start_page,
                 page_end   |-> last_line.page_num,
                 line_start |-> st.start_line,
                 line_end   |-> last_line.line_num,
                 text       |-> strip(st.buffer)])
        ELSE st.chunks

chunk_text_universal(lines) ==
    LET full_text == JoinLines(lines)
        matches   == FindHeadings(full_text, 0)
    IN  IF matches # <<>> THEN HeadingChunks(lines, full_text, matches)
        ELSE FallbackChunks(lines)

-----------------------------------------------------------------------------
(* chunk_text_universal applied on its own *)

\* most lines of a document and its last page
MaxLines == 3
MaxPages == 2

\* texts of extracted lines: stripped and at least 5 characters long; two
\* headings, one of them with its number on the next line, and lines of one
\* and of two words
LineTexts ==
    { <<"A", "r", "t", "i", "c", "l", "e", " ", "1">>,
      <<"S", "e", "c", "t", "i", "o", "n">>,
      <<"2", " ", "t", "w", "o">>,
      <<"w", "o", "r", "d", "s">>,
      <<"t", "w", "o", " ", "w", "o", "r", "d", "s">> }

\* line_count of extract_text_with_lines: the number of the line in its page
LineNumber(pages, j) == Cardinality({i \in 1..j : pages[i] = pages[j]})

\* what extract_text_with_lines can return for a document with text: lines
\* in page order, numbered within their page
ExtractedLines ==
    UNION { { [j \in 1..n |-> [page_num |-> pages[j],
                               line_num |-> LineNumber(pages, j),
                               text     |-> texts[j]]] :
                pages \in {p \in [1..n -> 1..MaxPages] :
                              \A j \in 1..(n - 1) : p[j] <= p[j + 1]},
                texts \in [1..n -> LineTexts] } :
            n \in 1..MaxLines }

\* the lines of a document are about to be chunked
InitChunk ==
    /\ SearchIdle /\ BuildIdle /\ ChatIdle /\ ThreadsIdle
    /\ \E lines \in ExtractedLines :
          call = [fn |-> "chunk_text_universal", arg |-> lines, applied |-> 0,
                  ret |-> None]

\* ret = chunk_text_universal(arg)
Chunk ==
    /\ call.applied = 0
    /\ call' = [call EXCEPT !.ret = chunk_text_universal(call.arg), !.applied = 1]
    /\ UNCHANGED <<search_vars, build_vars, chat_vars, thread_vars>>

NextChunk == Chunk

SpecChunk == InitChunk /\ [][NextChunk]_vars

-----------------------------------------------------------------------------
(* C18 *)

\* C18: every chunk chunk_text_universal produces, in the heading-based and
\* in the fallback pass, has page_start <= page_end
C18_PagesInOrder ==
    call.applied = 1 =>
        \A i \in 1..Len(call.ret) : call.ret[i].page_start <= call.ret[i].page_end

\* the heading-based pass produced a chunk that ends on a later page than it
\* starts on, after a chunk of its own page
C18_Witness ==
    /\ call.applied = 1
    /\ Len(call.ret) >= 2
    /\ \E i \in 1..Len(call.ret) :
          /\ call.ret[i].article_no # <<"0">>
          /\ call.ret[i].page_start < call.ret[i].page_end

-----------------------------------------------------------------------------
(* The build steps and the files they persist *)

\* most files in data/raw_pdfs
MaxFiles == 2

\* str.endswith
EndsWith(s, suffix) ==
    /\ Len(s) >= Len(suffix)
    /\ SubSeq(s, Len(s) - Len(suffix) + 1, Len(s)) = suffix

DotPdf == <<".", "p", "d", "f">>

\* os.path.splitext(name)[0]: the name up to its last dot, the whole name
\* when it has no dot after its first character
SplitExt(name) ==
    LET dots == {i \in 2..Len(name) : name[i] = "."}
    IN  IF dots = {} THEN name
        ELSE SubSeq(name, 1, (CHOOSE i \in dots : \A j \in dots : j <= i) - 1)

\* one extracted line
Line(page_num, line_num, text) ==
    [page_num |-> page_num, line_num |-> line_num, text |-> text]

\* the files a source directory can hold.  opens: whether fitz.open reads the
\* file; lines: what extract_text_with_lines returns for it
RawFiles ==
    { [name  |-> <<"g", "u", "i", "d", "e", ".", "p", "d", "f">>,
       opens |-> TRUE,
       lines |-> << Line(1, 1, <<"A", "r", "t", "i", "c", "l", "e", " ", "1">>),
                    Line(1, 2, <<"t", "w", "o", " ", "w", "o", "r", "d", "s">>) >>],
      [name  |-> <<"R", "e", "s", "t", "r", "i", "c", "t", "e", "d", ".", "P", "D", "F">>,
       opens |-> TRUE,
       lines |-> << Line(1, 1, <<"A", "r", "t", "i", "c", "l", "e", " ", "1">>),
                    Line(1, 2, <<"S", "e", "c", "t", "i", "o", "n">>),
                    Line(2, 1, <<"2", " ", "t", "w", "o">>) >>],
      [name  |-> <<"s", "c", "a", "n", ".", "p", "d", "f">>,
       opens |-> TRUE,
       lines |-> <<>>],
      [name  |-> <<"b", "a", "d", ".", "p", "d", "f">>,
       opens |-> FALSE,
       lines |-> <<>>],
      [name  |-> <<"n", "o", "t", "e", "s", ".", "t", "x", "t">>,
       opens |-> TRUE,
       lines |-> <<>>] }

\* os.listdir(input_dir): up to MaxFiles different files, in any order
Dirs ==
    UNION { {d \in [1..n -> RawFiles] :
                \A i, j \in 1..n : i # j => d[i].name # d[j].name} :
            n \in 0..MaxFiles }

\* the record process_pdfs writes for a chunk of pdf_file
Record(pdf_file, chunk) ==
    [doc_id     |-> SplitExt(pdf_file),
     article_no |-> chunk.article_no,
     page_start |-> chunk.page_start,
     page_end   |-> chunk.page_end,
     line_start |-> chunk.line_start,
     line_end   |-> chunk.line_end,
     text       |-> chunk.text,
     norm_text  |-> normalize_text(chunk.text),
     roles      |-> assign_roles_from_filename(pdf_file)]

\* the records of one document, in chunk order
RecordsOf(file) ==
    LET chunks == chunk_text_universal(file.lines)
    IN  [c \in 1..Len(chunks) |-> Record(file.name, chunks[c])]

\* RecordsOf, computed once for every file that has lines: the pairs of a
\* file name and the records of that file
RecordsTable ==
    {<<file.name, RecordsOf(file)>> : file \in {f \in RawFiles : f.lines # <<>>}}

RecordsOfFile(file) == (CHOOSE pair \in RecordsTable : pair[1] = file.name)[2]

\* the loop of process_pdfs over the directory from entry j on: what has
\* been written to the output when it ends, and whether it ended by an
\* exception of extract_text_with_lines
RECURSIVE WriteFrom(_, _, _)
WriteFrom(dir, j, written) ==
    IF j > Len(dir) THEN [records |-> written, raised |-> FALSE]
    ELSE IF ~EndsWith(lower(dir[j].name), DotPdf)
            THEN WriteFrom(dir, j + 1, written)
    ELSE IF ~dir[j].opens
            THEN [records |-> written, raised |-> TRUE]
    ELSE IF dir[j].lines = <<>>
            THEN WriteFrom(dir, j + 1, written)
    ELSE WriteFrom(dir, j + 1, written \o RecordsOfFile(dir[j]))

\* the PDFs of the directory that can be opened and have text
TextPdfs(dir) ==
    {dir[j].name : j \in {i \in 1..Len(dir) :
        /\ EndsWith(lower(dir[i].name), DotPdf)
        /\ dir[i].opens
        /\ dir[i].lines # <<>>}}

\* the app is not running: no retriever is held
NotServing == retriever = NoneObject

\* scripts/01_chunk_pdfs.py run on a directory: the output is opened for
\* writing, which empties it, and holds what the loop wrote when the run ends
ProcessPdfs(dir) ==
    /\ NotServing
    /\ LET run == WriteFrom(dir, 1, <<>>)
       IN  /\ data' = [data EXCEPT !.chunks_jsonl = [records |-> run.records]]
           /\ outcome' = [step    |-> "process_pdfs",
                          pdfs    |-> TextPdfs(dir),
                          raised  |-> run.raised,
                          printed |-> IF run.raised THEN "traceback"
                                      ELSE "All chunks saved successfully"]
    /\ UNCHANGED <<search_vars, chat_vars, call_vars, thread_vars>>

\* BM25Okapi(corpus) of rank_bm25 divides by the number of documents
Bm25Raises(corpus) == corpus = <<>>

\* scripts/02_build_bm25.py: load_chunks raises when chunks.jsonl is missing;
\* the exception of build_bm25 is caught and printed by the script
BuildBm25 ==
    /\ NotServing
    /\ LET missing == data.chunks_jsonl = NoneObject
           chunks  == IF missing THEN <<>> ELSE data.chunks_jsonl.records
           corpus  == [i \in 1..Len(chunks) |-> Bm25Tokens(chunks[i])]
           raised  == missing \/ Bm25Raises(corpus)
       IN  /\ data' = IF raised THEN data
                      ELSE [data EXCEPT !.bm25_pkl = [bm25 |-> corpus, meta |-> chunks]]
           /\ outcome' = [step    |-> "build_bm25",
                          pdfs    |-> {},
                          raised  |-> raised,
                          printed |-> IF raised THEN "BM25 build failed"
                                      ELSE "BM25 index saved"]
    /\ UNCHANGED <<search_vars, chat_vars, call_vars, thread_vars>>

\* the vector model.encode gives a text, known by the text it encodes
Embedding(norm_text) == [of |-> norm_text]

\* scripts/03_build_faiss.py: np.vstack raises on an empty list of batches;
\* faiss.index is written before meta.json, and a run that is interrupted
\* between the two leaves the new index beside the old meta.json
BuildFaiss(interrupted) ==
    /\ NotServing
    /\ LET missing == data.chunks_jsonl = NoneObject
           chunks  == IF missing THEN <<>> ELSE data.chunks_jsonl.records
           vectors == [i \in 1..Len(chunks) |-> Embedding(chunks[i].norm_text)]
           raised  == missing \/ chunks = <<>>
       IN  /\ data' = IF raised THEN data
                      ELSE IF interrupted
                           THEN [data EXCEPT !.faiss_index = [vectors |-> vectors]]
                      ELSE [data EXCEPT !.faiss_index = [vectors |-> vectors],
                                        !.meta_json = [chunks |-> chunks]]
           /\ outcome' = [step    |-> "build_faiss",
                          pdfs    |-> {},
                          raised  |-> raised \/ interrupted,
                          printed |-> IF raised THEN "FAISS build failed"
                                      ELSE IF interrupted THEN "traceback"
                                      ELSE "Metadata saved"]
    /\ UNCHANGED <<search_vars, chat_vars, call_vars, thread_vars>>

\* alpha app/enhanced_chat.py passes to Retriever, in hundredths
ChatAlpha == 45

\* Retriever(bm25_path, faiss_path, meta_path, alpha) on the files as they
\* are: the object, or NoneObject when a file is missing and __init__ raises
Loaded(files, a) ==
    IF \/ files.bm25_pkl = NoneObject
       \/ files.faiss_index = NoneObject
       \/ files.meta_json = NoneObject
    THEN NoneObject
    ELSE [alpha     |-> a,
          bm25      |-> files.bm25_pkl.bm25,
          meta      |-> files.bm25_pkl.meta,
          index     |-> files.faiss_index.vectors,
          meta_json |-> files.meta_json.chunks]

\* app/enhanced_chat.py is started: the module-level retriever is built, and
\* set to None when that raises
StartApp ==
    /\ response = NoneObject
    /\ retriever = NoneObject
    /\ retriever' = Loaded(data, ChatAlpha)
    /\ response' = [started |-> TRUE]
    /\ UNCHANGED <<search_vars, build_vars, call_vars, thread_vars>>

\* the app is stopped
StopApp ==
    /\ response # NoneObject
    /\ retriever' = NoneObject
    /\ response' = NoneObject
    /\ UNCHANGED <<search_vars, build_vars, call_vars, thread_vars>>

\* nothing is built and the app is not running
InitBuild == SearchIdle /\ BuildIdle /\ ChatIdle /\ CallIdle /\ ThreadsIdle

NextBuild ==
    \/ \E dir \in Dirs : ProcessPdfs(dir)
    \/ BuildBm25
    \/ \E interrupted \in BOOLEAN : BuildFaiss(interrupted)
    \/ StartApp
    \/ StopApp

SpecBuild == InitBuild /\ [][NextBuild]_vars

-----------------------------------------------------------------------------
(* C11 *)

\* C11: a Retriever constructed from the persisted files, after any
\* sequence of runs of the build steps, holds a lexical index, a vector
\* index and a metadata list built from the same ordered chunk list
C11_IndicesAligned ==
    retriever # NoneObject =>
        /\ retriever.meta = retriever.meta_json
        /\ Len(retriever.bm25) = Len(retriever.meta_json)
        /\ Len(retriever.index) = Len(retriever.meta_json)
        /\ \A i \in 1..Len(retriever.meta_json) :
              /\ retriever.bm25[i] = Bm25Tokens(retriever.meta_json[i])
              /\ retriever.index[i] = Embedding(retriever.meta_json[i].norm_text)

-----------------------------------------------------------------------------
(* C13 *)

\* the directory yields no chunk: it holds no PDF, or only PDFs that open
\* and have no text
YieldsNoChunks(dir) ==
    \A j \in 1..Len(dir) :
        EndsWith(lower(dir[j].name), DotPdf) => (dir[j].opens /\ dir[j].lines = <<>>)

\* a step of the build run over a source that yields no chunk
EmptyBuildStep ==
    \/ \E dir \in Dirs : YieldsNoChunks(dir) /\ ProcessPdfs(dir)
    \/ /\ data.chunks_jsonl # NoneObject
       /\ data.chunks_jsonl.records = <<>>
       /\ (BuildBm25 \/ \E interrupted \in BOOLEAN : BuildFaiss(interrupted))

\* C13: a build step run over a source that yields zero chunks ends as a
\* failure and leaves every persisted file as it was
C13_EmptyBuildKeepsFiles ==
    [][EmptyBuildStep => (outcome'.raised /\ data' = data)]_vars

-----------------------------------------------------------------------------
(* C14 *)

\* C14: process_pdfs does not end by an exception, and its output holds the
\* chunks of every PDF of the directory that has text, whatever other files
\* of the directory cannot be read
C14_UnreadablePdfIsSkipped ==
    (outcome # NoneObject /\ outcome.step = "process_pdfs") =>
        /\ ~outcome.raised
        /\ \A name \in outcome.pdfs :
              \E i \in 1..Len(data.chunks_jsonl.records) :
                  data.chunks_jsonl.records[i].doc_id = SplitExt(name)

-----------------------------------------------------------------------------
(* C19 *)

\* the records of chunks.jsonl
WrittenRecords ==
    IF data.chunks_jsonl = NoneObject THEN <<>> ELSE data.chunks_jsonl.records

\* C19: every record process_pdfs writes has a non-empty role set given by
\* the name of its file alone: legal and admin when the name holds
\* "restricted" in any letter case, staff, legal and admin otherwise; the
\* records of one document have the same roles
C19_RolesFromFilename ==
    \A i \in 1..Len(WrittenRecords) :
        LET rec == WrittenRecords[i]
        IN  /\ rec.roles # {}
            /\ rec.roles = IF Contains(lower(rec.doc_id), Restricted)
                           THEN {"legal", "admin"}
                           ELSE {"staff", "legal", "admin"}
            /\ \A j \in 1..Len(WrittenRecords) :
                  WrittenRecords[j].doc_id = rec.doc_id =>
                      WrittenRecords[j].roles = rec.roles

\* chunks.jsonl holds two chunks of Restricted.PDF and a chunk of guide.pdf
C19_Witness ==
    /\ Len(WrittenRecords) = 3
    /\ \E i, j, k \in 1..3 :
          /\ i # j
          /\ WrittenRecords[i].doc_id = WrittenRecords[j].doc_id
          /\ WrittenRecords[i].roles = {"legal", "admin"}
          /\ WrittenRecords[k].roles = {"staff", "legal", "admin"}

-----------------------------------------------------------------------------
(* app/enhanced_chat.py: the streaming chat endpoint *)

\* topk of the search stream_chat makes
ChatTopk == 5

\* the number of sources stream_chat keeps
ChatSources == 3

search_indicators ==
    { <<"f", "i", "n", "d">>,
      <<"s", "e", "a", "r", "c", "h">>,
      <<"l", "o", "o", "k", " ", "f", "o", "r">>,
      <<"s", "h", "o", "w", " ", "m", "e">>,
      <<"w", "h", "e", "r", "e", " ", "i", "s">>,
      <<"l", "o", "c", "a", "t", "e">>,
      <<"a", "r", "t", "i", "c", "l", "e">>,
      <<"s", "e", "c", "t", "i", "o", "n">>,
      <<"c", "l", "a", "u", "s", "e">>,
      <<"p", "a", "g", "e">>,
      <<"d", "o", "c", "u", "m", "e", "n", "t">>,
      <<"p", "d", "f">>,
      <<"p", "o", "l", "i", "c", "y">>,
      <<"w", "h", "a", "t", " ", "d", "o", "e", "s">>,
      <<"w", "h", "a", "t", " ", "i", "s">>,
      <<"h", "o", "w", " ", "d", "o", "e", "s">>,
      <<"a", "c", "c", "o", "r", "d", "i", "n", "g", " ", "t", "o">>,
      <<"m", "e", "n", "t", "i", "o", "n", "e", "d", " ", "i", "n">>,
      <<"r", "e", "q", "u", "i", "r", "e", "m", "e", "n", "t", "s", " ", "f", "o", "r">>,
      <<"p", "r", "o", "c", "e", "s", "s", " ", "o", "f">>,
      <<"r", "u", "l", "e", "s", " ", "a", "b", "o", "u", "t">>,
      <<"i", "n", "f", "o", "r", "m", "a", "t", "i", "o", "n", " ", "o", "n">> }

\* is_search_query
is_search_query(text) ==
    LET text_lower == strip(lower(text))
    IN  \E indicator \in search_indicators : Contains(text_lower, indicator)

\* role_hierarchy.get(user_role.lower(), ["public"])
AllowedRoles(user_role) ==
    LET r == FoldRole(user_role)
    IN  IF r = "admin" THEN {"admin", "legal", "staff", "public"}
        ELSE IF r = "legal" THEN {"legal", "staff", "public"}
        ELSE IF r = "staff" THEN {"staff", "public"}
        ELSE {"public"}

\* filter_sources_by_role
filter_sources_by_role(sources, user_role) ==
    LET allowed_roles == AllowedRoles(user_role)
        Kept(source) ==
            LET source_roles == IF "roles" \in DOMAIN source
                                THEN source.roles ELSE {"public"}
            IN  \E role \in source_roles :
                    FoldRole(role) \in {FoldRole(r) : r \in allowed_roles}
    IN  SelectSeq(sources, Kept)

\* the files of an index directory: those a complete build over chunks
\* leaves, and the same with files missing
BuiltFiles(chunks) ==
    [chunks_jsonl |-> [records |-> chunks],
     bm25_pkl     |-> [bm25 |-> [i \in 1..Len(chunks) |-> Bm25Tokens(chunks[i])],
                       meta |-> chunks],
     faiss_index  |-> [vectors |-> [i \in 1..Len(chunks) |->
                                        Embedding(chunks[i].norm_text)]],
     meta_json    |-> [chunks |-> chunks]]

IndexDirs ==
    UNION { { BuiltFiles(chunks),
              [BuiltFiles(chunks) EXCEPT !.faiss_index = NoneObject],
              [BuiltFiles(chunks) EXCEPT !.bm25_pkl = NoneObject,
                                         !.faiss_index = NoneObject,
                                         !.meta_json = NoneObject] } :
            chunks \in Corpora }

\* messages of chat requests: two with a search indicator, one without
Messages ==
    { <<"f", "i", "n", "d", " ", "l", "a", "w">>,
      <<"L", "a", "w">>,
      <<"W", "h", "a", "t", " ", "i", "s", " ", "a", " ", "w">> }

\* user_role of chat requests
UserRoles == {"staff", "legal", "Staff", "public"}

\* what the searching part of stream_chat leaves in sources: the first
\* ChatSources of the role-filtered results of a search, and nothing when no
\* search is made
ChatSourcesOf(message, user_role, needs_search) ==
    IF ~(needs_search /\ retriever # NoneObject)
    THEN {<<>>}
    ELSE LET meta == retriever.meta_json
         IN  UNION { UNION { { PySliceTo(filter_sources_by_role(out.results, user_role),
                                         ChatSources) :
                                 out \in SearchReturns(retriever.alpha, meta, message,
                                                       {user_role}, ChatTopk, bm25,
                                                       f.labels, f.dists) } :
                             f \in FaissAnswers(sims, faiss_topk) } :
                     bm25 \in Bm25Answers(meta, split(normalize_text(message))),
                     sims \in [1..Len(meta) -> RawLevels] }

\* the app is running and no request is being answered
Listening == [started |-> TRUE]

\* POST /chat/stream: the first event of the stream carries sources, the
\* later ones the model's text, or an error when the model cannot be reached
StreamChat(message, user_role, use_documents, model_up) ==
    /\ response = Listening
    /\ LET needs_search == use_documents /\ is_search_query(message)
       IN  \E sources \in ChatSourcesOf(message, user_role, needs_search) :
              response' = [started      |-> TRUE,
                           message      |-> message,
                           user_role    |-> user_role,
                           needs_search |-> needs_search,
                           sources      |-> sources,
                           error        |-> IF model_up THEN None
                                            ELSE "Model connection failed"]
    /\ UNCHANGED <<search_vars, build_vars, retriever, call_vars, thread_vars>>

\* the client has read the stream to its end
StreamEnds ==
    /\ response # NoneObject
    /\ response # Listening
    /\ response' = Listening
    /\ UNCHANGED <<search_vars, build_vars, retriever, call_vars, thread_vars>>

\* the index directory is as some build, or the lack of one, left it; the
\* app is not running
InitChat ==
    /\ SearchIdle /\ ChatIdle /\ CallIdle /\ ThreadsIdle
    /\ data \in IndexDirs
    /\ outcome = NoneObject

NextChat ==
    \/ StartApp
    \/ \E message \in Messages, user_role \in UserRoles,
          use_documents \in BOOLEAN, model_up \in BOOLEAN :
          StreamChat(message, user_role, use_documents, model_up)
    \/ StreamEnds
    \/ StopApp

SpecChat == InitChat /\ [][NextChat]_vars

-----------------------------------------------------------------------------
(* C12 *)

\* a chat request has been answered
Answered == response # NoneObject /\ "sources" \in DOMAIN response

\* C12: a chat request that needs a document search, made while the
\* retriever could not be constructed, does not end with an empty source
\* list and no error
C12_MissingIndexIsSignalled ==
    (Answered /\ retriever = NoneObject /\ response.needs_search) =>
        ~(response.sources = <<>> /\ response.error = None)

-----------------------------------------------------------------------------
(* Retriever.search called from several threads *)

\* the number of calls of search running at the same time
MaxThreads == 2

\* the inputs of the concurrent calls: a query one chunk holds, asked by
\* staff, and a query no chunk holds, asked by legal
ThreadCalls ==
    { [query |-> <<"l", "a", "w">>, roles |-> {"staff"}, topk |-> 1],
      [query |-> <<"w", "w">>, roles |-> {"legal"}, topk |-> MaxTopk] }

\* the corpora they search: a chunk of each document, with different texts
ThreadCorpora ==
    {c \in Corpora : /\ Len(c) = 2
                     /\ c[1].doc_id # c[2].doc_id
                     /\ c[1].text # c[2].text}

\* the state of the retriever a call reads
LoadedNow == [alpha |-> alpha, meta_json |-> meta_json]

\* a call is between its first and its last statement
MidCall(th) == th.pc \in {"scored", "primary", "fallback"}

\* search(q, r, k) is entered by a new thread; loaded is the state of the
\* retriever the call is made against, overlaps whether another call is
\* between its first and last statement at that time
Call(q, r, k) ==
    /\ Len(threads) < MaxThreads
    /\ threads' = Append(threads,
                    [pc          |-> "called",
                     query       |-> q,
                     roles       |-> r,
                     topk        |-> k,
                     loaded      |-> LoadedNow,
                     overlaps    |-> \E u \in 1..Len(threads) : MidCall(threads[u]),
                     bm25_scores |-> <<>>,
                     I           |-> <<>>,
                     D           |-> <<>>,
                     fused       |-> <<>>,
                     bm25_norm   |-> <<>>,
                     order       |-> <<>>,
                     p           |-> 0,
                     results     |-> <<>>,
                     answer      |-> <<>>])
    /\ UNCHANGED <<search_vars, twin, build_vars, chat_vars, call_vars>>

\* thread t asks the two indices
Score(t) ==
    /\ threads[t].pc = "called"
    /\ \E bm25 \in Bm25Answers(meta_json, split(normalize_text(threads[t].query))),
          sims \in [1..Len(meta_json) -> RawLevels] :
         \E f \in FaissAnswers(sims, faiss_topk) :
            threads' = [threads EXCEPT ![t].pc = "scored",
                                       ![t].bm25_scores = bm25,
                                       ![t].I = f.labels,
                                       ![t].D = f.dists]
    /\ UNCHANGED <<search_vars, twin, build_vars, chat_vars, call_vars>>

\* thread t normalizes, blends, boosts and ranks
Rank(t) ==
    /\ threads[t].pc = "scored"
    /\ LET th    == threads[t]
           fused == Fused(alpha, meta_json, th.query, th.bm25_scores,
                          VecScores(Len(meta_json), th.I, th.D))
       IN  \E ranked_idx \in ArgsortDescending(fused) :
              threads' = [threads EXCEPT ![t].pc = "primary",
                                         ![t].fused = fused,
                                         ![t].bm25_norm = normalize_scores(th.bm25_scores),
                                         ![t].order = ranked_idx,
                                         ![t].p = 1]
    /\ UNCHANGED <<search_vars, twin, build_vars, chat_vars, call_vars>>

\* MetaAfterAppend with the highlighted excerpt stored as the chunk's text
MetaAfterAppendMarked(meta, i, item) == [meta EXCEPT ![i].text = item.excerpt]

\* what appending the result of chunk i leaves in self.meta_json: the loops
\* read the chunk and build a new dict and a new string
MetaAfterAppend(meta, i, item) == meta

\* thread t returns results
Returns(t, res) ==
    [threads EXCEPT ![t].pc = "returned",
                    ![t].results = res,
                    ![t].answer = Answer(res)]

\* one pass of thread t through the body of the first loop, or the end of
\* that loop
PrimaryStep(t) ==
    /\ threads[t].pc = "primary"
    /\ LET th          == threads[t]
           tokens      == split(normalize_text(th.query))
           i           == th.order[th.p]
           chunk       == meta_json[i]
           chunk_roles == ChunkRoles(chunk)
           item        == ResultItem(chunk, chunk_roles,
                                     round3(th.fused[i], FusedOne), tokens)
           more        == Append(th.results, item)
       IN  IF th.p > Len(th.order)
           THEN /\ IF th.results # <<>>
                   THEN threads' = Returns(t, th.results)
                   ELSE \E ranked_bm \in ArgsortDescending(th.bm25_norm) :
                           threads' = [threads EXCEPT
                                          ![t].pc = "fallback",
                                          ![t].order = PySliceTo(ranked_bm, th.topk),
                                          ![t].p = 1]
                /\ UNCHANGED meta_json
           ELSE IF ~RolesIntersect(th.roles, chunk_roles) \/ WeakMatch(th.fused[i])
           THEN /\ threads' = [threads EXCEPT ![t].p = th.p + 1]
                /\ UNCHANGED meta_json
           ELSE /\ threads' = IF EnoughResults(more, th.topk)
                              THEN Returns(t, more)
                              ELSE [threads EXCEPT ![t].p = th.p + 1,
                                                   ![t].results = more]
                /\ meta_json' = MetaAfterAppend(meta_json, i, item)
    /\ UNCHANGED <<alpha, query, roles, topk, bm25_scores, I, D, results,
                   answer, pass>>
    /\ UNCHANGED <<twin, build_vars, chat_vars, call_vars>>

\* one pass of thread t through the body of the fallback loop, or its end
FallbackStep(t) ==
    /\ threads[t].pc = "fallback"
    /\ LET th     == threads[t]
           tokens == split(normalize_text(th.query))
           i      == th.order[th.p]
           chunk  == meta_json[i]
           item   == ResultItem(chunk, FallbackRoles(chunk),
                                round3(th.bm25_norm[i], NormOne), tokens)
       IN  IF th.p > Len(th.order)
           THEN /\ threads' = Returns(t, th.results)
                /\ UNCHANGED meta_json
           ELSE IF ~RolesIntersect(th.roles, FallbackRoles(chunk))
           THEN /\ threads' = [threads EXCEPT ![t].p = th.p + 1]
                /\ UNCHANGED meta_json
           ELSE /\ threads' = [threads EXCEPT ![t].p = th.p + 1,
                                              ![t].results = Append(th.results, item)]
                /\ meta_json' = MetaAfterAppend(meta_json, i, item)
    /\ UNCHANGED <<alpha, query, roles, topk, bm25_scores, I, D, results,
                   answer, pass>>
    /\ UNCHANGED <<twin, build_vars, chat_vars, call_vars>>

\* the caller of thread t has taken the returned value
Done(t) ==
    /\ threads[t].pc = "returned"
    /\ threads' = [u \in 1..(Len(threads) - 1) |->
                      IF u < t THEN threads[u] ELSE threads[u + 1]]
    /\ UNCHANGED <<search_vars, twin, build_vars, chat_vars, call_vars>>

NextThreads ==
    \/ \E c \in ThreadCalls : Call(c.query, c.roles, c.topk)
    \/ \E t \in 1..Len(threads) : Score(t)
    \/ \E t \in 1..Len(threads) : Rank(t)
    \/ \E t \in 1..Len(threads) : PrimaryStep(t)
    \/ \E t \in 1..Len(threads) : FallbackStep(t)
    \/ \E t \in 1..Len(threads) : Done(t)

\* a retriever is loaded and no thread is in search
InitThreads ==
    /\ alpha = DefaultAlpha
    /\ meta_json \in ThreadCorpora
    /\ query = <<>>
    /\ roles = {}
    /\ topk = 0
    /\ bm25_scores = <<>>
    /\ I = <<>>
    /\ D = <<>>
    /\ results = <<>>
    /\ answer = <<>>
    /\ pass = "none"
    /\ twin = NoTwin
    /\ BuildIdle /\ ChatIdle /\ CallIdle /\ ThreadsIdle

SpecThreads == InitThreads /\ [][NextThreads]_vars

-----------------------------------------------------------------------------
(* C15 *)

\* the values a call of thread th returns when it runs alone against the
\* retriever as it was when the call began, given what the indices answered
AloneReturns(th) ==
    SearchReturns(th.loaded.alpha, th.loaded.meta_json, th.query, th.roles,
                  th.topk, th.bm25_scores, th.I, th.D)

\* C15: search changes nothing of the loaded retriever, and under every
\* interleaving of concurrent calls each call returns what it returns when
\* run alone against the same loaded indices
C15_ConcurrentSearchAsAlone ==
    \A t \in 1..Len(threads) :
        /\ threads[t].loaded = LoadedNow
        /\ threads[t].pc = "returned" =>
              \E out \in AloneReturns(threads[t]) :
                  /\ out.results = threads[t].results
                  /\ out.answer = threads[t].answer

\* a call that began while another was between its first and last statement
\* has returned results, and so has the other
C15_Witness ==
    /\ Len(threads) = 2
    /\ threads[1].pc = "returned" /\ threads[1].results # <<>>
    /\ threads[2].pc = "returned" /\ threads[2].results # <<>>
    /\ threads[2].overlaps
    /\ threads[1].query # threads[2].query

-----------------------------------------------------------------------------
(* The fusion step at two values of alpha *)

\* the number of chunks and the raw score levels of the fusion runs: three
\* chunks and three levels give normalized scores strictly between 0 and 1
FuseChunks == 3
FuseLevels == 0..2

\* values of alpha, in hundredths: the ends of [0,1], the default, the value
\* app/enhanced_chat.py passes, and two more
Alphas == {0, 25, ChatAlpha, DefaultAlpha, 75, AlphaDen}

\* chunks that differ in nothing but their number: the boost loop adds the
\* same to each
AlikeChunks ==
    [i \in 1..FuseChunks |-> ChunkRecord(<<"g", "u", "i", "d", "e">>, i, <<"L", "a", "w">>)]

\* raw scores of the two indices and two values of alpha, the second the
\* larger, are given
InitFuse ==
    /\ SearchIdle /\ BuildIdle /\ ChatIdle /\ ThreadsIdle
    /\ \E a \in Alphas, b \in Alphas, bm25 \in [1..FuseChunks -> FuseLevels],
          vec \in [1..FuseChunks -> FuseLevels] :
          /\ a < b
          /\ call = [fn           |-> "fused",
                     alpha        |-> a,
                     larger       |-> b,
                     bm25_scores  |-> bm25,
                     vec_scores   |-> vec,
                     applied      |-> 0,
                     fused        |-> <<>>,
                     fused_larger |-> <<>>]

\* the fusion of search with self.alpha = call.alpha
Fuse ==
    /\ call.applied = 0
    /\ call' = [call EXCEPT !.applied = 1,
                            !.fused = Fused(call.alpha, AlikeChunks, <<"l", "a", "w">>,
                                            call.bm25_scores, call.vec_scores)]
    /\ UNCHANGED <<search_vars, twin, build_vars, chat_vars, thread_vars>>

\* the same fusion by a retriever with the larger alpha
FuseLarger ==
    /\ call.applied = 1
    /\ call' = [call EXCEPT !.applied = 2,
                            !.fused_larger = Fused(call.larger, AlikeChunks,
                                                   <<"l", "a", "w">>,
                                                   call.bm25_scores, call.vec_scores)]
    /\ UNCHANGED <<search_vars, twin, build_vars, chat_vars, thread_vars>>

NextFuse == Fuse \/ FuseLarger

SpecFuse == InitFuse /\ [][NextFuse]_vars

-----------------------------------------------------------------------------
(* C21 *)

\* chunk A has a semantic signal only and chunk B a lexical signal only
SemanticVersusLexical(A, B) ==
    LET vec_norm  == normalize_scores(call.vec_scores)
        bm25_norm == normalize_scores(call.bm25_scores)
    IN  /\ vec_norm[A] > 0 /\ bm25_norm[A] = 0
        /\ bm25_norm[B] > 0 /\ vec_norm[B] = 0

\* C21: for a chunk A with a semantic signal only and a chunk B with a
\* lexical signal only, fused(A) - fused(B) is strictly larger at the larger
\* alpha, and A ranked above B at the smaller alpha stays above B
C21_AlphaMonotone ==
    call.applied = 2 =>
        \A A, B \in 1..FuseChunks :
            SemanticVersusLexical(A, B) =>
                /\ call.fused_larger[A] - call.fused_larger[B]
                     > call.fused[A] - call.fused[B]
                /\ call.fused[A] > call.fused[B] =>
                     call.fused_larger[A] > call.fused_larger[B]

\* both fusions are done, A is above B at the smaller alpha, and the
\* normalized scores of A and B are not both 1
C21_Witness ==
    /\ call.applied = 2
    /\ \E A, B \in 1..FuseChunks :
          /\ SemanticVersusLexical(A, B)
          /\ call.fused[A] > call.fused[B]
          /\ normalize_scores(call.vec_scores)[A]
               # normalize_scores(call.bm25_scores)[B]

-----------------------------------------------------------------------------
(* The semantic scores of search, from the similarities of the index *)

\* similarities of chunks to the query, in hundredths: none, weak, strong
SimLevels == {0, 20, 90}

\* the first n of the alike chunks
FirstChunks(n) == SubSeq(AlikeChunks, 1, n)

\* a corpus of up to FuseChunks chunks, the similarity of each chunk to the
\* query and its raw lexical score are given
InitCandidates ==
    /\ SearchIdle /\ BuildIdle /\ ChatIdle /\ ThreadsIdle
    /\ \E n \in 1..FuseChunks :
         \E sims \in [1..n -> SimLevels], bm25 \in [1..n -> RawLevels] :
            call = [fn          |-> "vec_scores",
                    n           |-> n,
                    sims        |-> sims,
                    bm25_scores |-> bm25,
                    applied     |-> 0,
                    I           |-> <<>>,
                    D           |-> <<>>,
                    vec_scores  |-> <<>>,
                    fused       |-> <<>>]

\* D, I = self.index.search(q_emb, self.faiss_topk)
IndexSearch ==
    /\ call.applied = 0
    /\ \E f \in FaissAnswers(call.sims, faiss_topk) :
          call' = [call EXCEPT !.applied = 1, !.I = f.labels, !.D = f.dists]
    /\ UNCHANGED <<search_vars, twin, build_vars, chat_vars, thread_vars>>

\* vec_scores is filled from I and D, and the scores are fused
FillAndFuse ==
    /\ call.applied = 1
    /\ LET vec == VecScores(call.n, call.I, call.D)
       IN  call' = [call EXCEPT
                       !.applied = 2,
                       !.vec_scores = vec,
                       !.fused = Fused(DefaultAlpha, FirstChunks(call.n),
                                       <<"l", "a", "w">>, call.bm25_scores, vec)]
    /\ UNCHANGED <<search_vars, twin, build_vars, chat_vars, thread_vars>>

NextCandidates == IndexSearch \/ FillAndFuse

SpecCandidates == InitCandidates /\ [][NextCandidates]_vars

-----------------------------------------------------------------------------
(* C22 *)

\* chunk i is among the candidates the index returned
IsCandidate(i) == \E p \in 1..Len(call.I) : call.I[p] = i - 1

\* the index had a chunk for every slot of its answer
NoPadding == \A p \in 1..Len(call.I) : call.I[p] >= 0

\* the semantic scores with a candidate below the floor (0.35, in
\* hundredths) counted as no candidate
FlooredScores ==
    [i \in 1..call.n |->
        IF IsCandidate(i) /\ call.sims[i] >= 35 THEN call.sims[i] ELSE 0]

\* C22: a candidate whose similarity is below the floor has the fused score
\* it would have had as no candidate: the fused scores are those of the
\* semantic scores with every such candidate at 0
C22_BelowFloorCountsZero ==
    (call.applied = 2 /\ NoPadding) =>
        call.fused = Fused(DefaultAlpha, FirstChunks(call.n), <<"l", "a", "w">>,
                           call.bm25_scores, FlooredScores)

-----------------------------------------------------------------------------
(* C24 *)

\* C24: for every corpus size, those smaller than the candidate pool
\* included, the raw semantic score of chunk i is the similarity the index
\* returned for it when i is a candidate and 0 otherwise
C24_PaddingChangesNoScore ==
    call.applied = 2 =>
        \A i \in 1..call.n :
            call.vec_scores[i] = IF IsCandidate(i) THEN call.sims[i] ELSE 0

-----------------------------------------------------------------------------
(* C23 *)

\* chunk i has no normalized lexical score, no normalized semantic score
\* and does not hold the query
NoSignal(i) ==
    /\ Bm25NormNow[i] = 0
    /\ normalize_scores(VecNow)[i] = 0
    /\ ~LiteralMatch(query, meta_json[i])

\* C23: the score search ranks and floor-filters by is the blend of the two
\* normalized scores plus the literal-match bonus and nothing else, so a
\* chunk with no signal has fused score 0 and is not returned by the primary
\* pass
C23_NoQueryIndependentTerm ==
    Returned =>
        /\ \A i \in 1..NChunks :
              FusedNow[i] = Blend(alpha, bm25_scores, VecNow)[i]
                              + LiteralBonus(query, meta_json[i])
        /\ \A i \in 1..NChunks :
              NoSignal(i) =>
                  /\ FusedNow[i] = 0
                  /\ pass = "primary" => \A p \in 1..Len(results) : ReturnedChunks[p] # i

-----------------------------------------------------------------------------
(* C25 *)

\* C25: no chunk that has a following chunk in its document is shorter than
\* 300 characters
C25_ShortChunksAreMerged ==
    call.applied = 1 =>
        \A i \in 1..(Len(call.ret) - 1) : Len(call.ret[i].text) >= 300

-----------------------------------------------------------------------------
(* C26 *)

\* the words of the texts of a sequence of records, in order
RECURSIVE WordsOf(_)
WordsOf(items) ==
    IF items = <<>> THEN <<>> ELSE split(Head(items).text) \o WordsOf(Tail(items))

\* C26: segmentation loses no text: every extracted line is within the text
\* of a chunk, and the words of the chunks, in chunk order, are the words of
\* the lines, in reading order
C26_NoTextLost ==
    call.applied = 1 =>
        /\ WordsOf(call.ret) = WordsOf(call.arg)
        /\ \A j \in 1..Len(call.arg) :
              \E i \in 1..Len(call.ret) : Contains(call.ret[i].text, call.arg[j].text)

-----------------------------------------------------------------------------
(* C27 *)

\* the headings of the document being chunked
HeadingsNow == FindHeadings(JoinLines(call.arg), 0)

\* the line of lines that holds the character at index idx (counted from 0)
\* of the joined text, from line j on; the newline after a line counts to it
RECURSIVE LineHolding(_, _, _, _)
LineHolding(lines, idx, j, cumulative) ==
    IF j >= Len(lines) \/ idx < cumulative + Len(lines[j].text) + 1
    THEN <<lines[j].page_num, lines[j].line_num>>
    ELSE LineHolding(lines, idx, j + 1, cumulative + Len(lines[j].text) + 1)

\* the index (from 0) of the first character of the heading word of match m
HeadingIndex(ft, m) ==
    (IF m.start = 0 THEN SkipSpace(ft, 1) ELSE SkipSpace(ft, m.start + 2)) - 1

\* the index (from 0) of the last character before end that is no whitespace
LastTextIndex(ft, end) ==
    (CHOOSE q \in 1..end : ~IsSpace(ft[q]) /\ \A r \in (q + 1)..end : IsSpace(ft[r])) - 1

\* C27: in the heading-based pass a chunk starts at the page and line of the
\* line that holds its heading and ends at the page and line of the line
\* that holds the last character of its text
C27_RangeIsHeadingToLastChar ==
    (call.applied = 1 /\ HeadingsNow # <<>>) =>
        LET ft == JoinLines(call.arg)
        IN  \A i \in 1..Len(HeadingsNow) :
               LET end == IF i + 1 <= Len(HeadingsNow) THEN HeadingsNow[i + 1].start
                          ELSE Len(ft)
                   from == LineHolding(call.arg, HeadingIndex(ft, HeadingsNow[i]), 1, 0)
                   to   == LineHolding(call.arg, LastTextIndex(ft, end), 1, 0)
               IN  /\ <<call.ret[i].page_start, call.ret[i].line_start>> = from
                   /\ <<call.ret[i].page_end, call.ret[i].line_end>> = to

-----------------------------------------------------------------------------
(* C28 *)

\* the texts of lines from..to, joined by single spaces
RECURSIVE SpaceJoin(_, _, _)
SpaceJoin(lines, from, to) ==
    IF from > to THEN <<>>
    ELSE IF from = to THEN lines[from].text
    ELSE lines[from].text \o <<" ">> \o SpaceJoin(lines, from + 1, to)

\* the number of words of lines from..to
RECURSIVE WordCount(_, _, _)
WordCount(lines, from, to) ==
    IF from > to THEN 0
    ELSE Len(split(lines[from].text)) + WordCount(lines, from + 1, to)

\* the i-th smallest element of a set of numbers, and the element before it
\* (0 for the smallest)
NthOf(S, i) == CHOOSE x \in S : Cardinality({y \in S : y <= x}) = i
BeforeNth(S, i) == IF i = 1 THEN 0 ELSE NthOf(S, i - 1)

\* C28: without a heading the chunks are consecutive windows of whole lines:
\* every chunk but possibly the last reaches ChunkWords words with its last
\* line, none has ChunkWords words before its last line, every article_no is
\* "0", and the page and line ranges are those of the first and last line
C28_FallbackWindows ==
    (call.applied = 1 /\ HeadingsNow = <<>>) =>
        LET lines  == call.arg
            chunks == call.ret
            n      == Len(lines)
            m      == Len(chunks)
        IN  \E ends \in SUBSET (1..n) :
               /\ Cardinality(ends) = m
               /\ n \in ends
               /\ \A i \in 1..m :
                     LET first == BeforeNth(ends, i) + 1
                         last  == NthOf(ends, i)
                     IN  /\ chunks[i].text = SpaceJoin(lines, first, last)
                         /\ chunks[i].article_no = <<"0">>
                         /\ chunks[i].page_start = lines[first].page_num
                         /\ chunks[i].line_start = lines[first].line_num
                         /\ chunks[i].page_end = lines[last].page_num
                         /\ chunks[i].line_end = lines[last].line_num
                         /\ WordCount(lines, first, last - 1) < ChunkWords
                         /\ i < m => WordCount(lines, first, last) >= ChunkWords

\* the fallback pass closed a chunk of two lines on the word count and left
\* a last chunk below it
C28_Witness ==
    /\ call.applied = 1
    /\ HeadingsNow = <<>>
    /\ Len(call.ret) = 2
    /\ call.ret[1].line_start # call.ret[1].line_end
    /\ Len(split(call.ret[2].text)) < ChunkWords

-----------------------------------------------------------------------------
(* C29 *)

\* s starts with prefix
StartsWith(s, prefix) ==
    Len(prefix) <= Len(s) /\ SubSeq(s, 1, Len(prefix)) = prefix

\* excerpt is original with markers added: read from the left, excerpt and
\* original go on with the same character, or excerpt goes on with a marker
\* around an occurrence of a token with which original goes on
RECURSIVE OnlyMarkersAdded(_, _, _)
OnlyMarkersAdded(excerpt, original, tokens) ==
    IF excerpt = <<>> THEN original = <<>>
    ELSE IF StartsWith(excerpt, MarkOpen)
    THEN LET inner == SubSeq(excerpt, Len(MarkOpen) + 1, Len(excerpt))
         IN  \E t \in 1..Len(tokens) :
                LET n == Len(tokens[t])
                IN  /\ n >= 1
                    /\ MatchAt(original, 1, tokens[t])
                    /\ StartsWith(inner, SubSeq(original, 1, n))
                    /\ StartsWith(SubSeq(inner, n + 1, Len(inner)), MarkClose)
                    /\ OnlyMarkersAdded(
                           SubSeq(inner, n + Len(MarkClose) + 1, Len(inner)),
                           SubSeq(original, n + 1, Len(original)), tokens)
    ELSE /\ original # <<>>
         /\ Head(excerpt) = Head(original)
         /\ OnlyMarkersAdded(Tail(excerpt), Tail(original), tokens)

\* C29: highlighting only adds markers: the excerpt of every result is the
\* first 700 characters of its chunk's text with markers added, each around
\* an occurrence of a query token in that text
C29_HighlightOnlyAddsMarkers ==
    Returned =>
        \A p \in 1..Len(results) :
            OnlyMarkersAdded(results[p].excerpt,
                             PySliceTo(meta_json[ReturnedChunks[p]].text, ExcerptLen),
                             TokensNow)

-----------------------------------------------------------------------------
(* The entry points that construct a Retriever *)

\* app/chat_api.py, app/run_api.py, app/enhanced_chat.py and
\* scripts/04_query_cli.py
EntryPoints == {"chat_api", "run_api", "enhanced_chat", "query_cli"}

\* MODEL_NAME of scripts/04_query_cli.py, when the environment sets none
ModelName == "sentence-transformers/all-MiniLM-L6-v2"

\* a Python float, in hundredths, and a Python str
Float(hundredths) == [is_number |-> TRUE, value |-> hundredths]
Str(s) == [is_number |-> FALSE, value |-> s]

\* the arguments an entry point passes to Retriever after the three paths:
\* by position and by the keyword alpha
ExtraPositional(entry) == IF entry = "query_cli" THEN <<Str(ModelName)>> ELSE <<>>
AlphaKeyword(entry) == IF entry = "enhanced_chat" THEN <<Float(ChatAlpha)>> ELSE <<>>

\* the value __init__(self, bm25_path, faiss_path, meta_path, alpha=0.5)
\* binds to alpha: the fourth positional argument, else the keyword, else
\* the default
BoundAlpha(entry) ==
    IF ExtraPositional(entry) # <<>> THEN ExtraPositional(entry)[1]
    ELSE IF AlphaKeyword(entry) # <<>> THEN AlphaKeyword(entry)[1]
    ELSE Float(DefaultAlpha)

\* an entry point is run: it constructs its Retriever from the index files;
\* enhanced_chat goes on without one when that raises, the others end
Construct(entry) ==
    /\ response = NoneObject
    /\ retriever = NoneObject
    /\ retriever' = Loaded(data, BoundAlpha(entry))
    /\ response' = [entry   |-> entry,
                    running |-> entry = "enhanced_chat"
                                \/ Loaded(data, BoundAlpha(entry)) # NoneObject,
                    fused   |-> None]
    /\ UNCHANGED <<search_vars, twin, build_vars, call_vars, thread_vars>>

\* the fusion step of the first search: the products self.alpha * vec_norm
\* and (1 - self.alpha) * bm25_norm are defined for a number and raise
\* TypeError for a str
FirstFusion ==
    /\ response # NoneObject
    /\ response.running
    /\ response.fused = None
    /\ retriever # NoneObject
    /\ response' = [response EXCEPT
                       !.fused = IF retriever.alpha.is_number THEN "defined"
                                 ELSE "TypeError"]
    /\ UNCHANGED <<search_vars, twin, build_vars, retriever, call_vars, thread_vars>>

\* the process of the entry point ends
Exit ==
    /\ response # NoneObject
    /\ retriever' = NoneObject
    /\ response' = NoneObject
    /\ UNCHANGED <<search_vars, twin, build_vars, call_vars, thread_vars>>

\* the index directory is as some build, or the lack of one, left it and no
\* entry point is running
InitEntry ==
    /\ SearchIdle /\ ChatIdle /\ CallIdle /\ ThreadsIdle
    /\ data \in IndexDirs
    /\ outcome = NoneObject

NextEntry ==
    \/ \E entry \in EntryPoints : Construct(entry)
    \/ FirstFusion
    \/ Exit

SpecEntry == InitEntry /\ [][NextEntry]_vars

-----------------------------------------------------------------------------
(* C30 *)

\* C30: every Retriever an entry point constructs has for alpha a number in
\* [0,1]
C30_AlphaIsUnitNumber ==
    retriever # NoneObject =>
        /\ retriever.alpha.is_number
        /\ retriever.alpha.value \in 0..AlphaDen

====
